---- MODULE Spec2Model ----
(***************************************************************************)
(* Order subsystem of the food-delivery admin API: the express handlers of *)
(* src/src/routes/orders.js and src/src/routes/menu.js over the tables of  *)
(* src/supabase/migrations/20251102002617_create_food_delivery_tables.sql. *)
(*                                                                         *)
(* Money: request bodies carry decimal numbers, written here in thousandths *)
(* (mills, 1005 = 1.005); numeric(10,2) columns hold hundredths (cents).    *)
(* Every handler step that awaits the store is one action; a handler with   *)
(* two awaits (createOrder, getOrder) is two actions with the request held  *)
(* in between.                                                              *)
(***************************************************************************)
EXTENDS Integers, Sequences, FiniteSets, TLC

VARIABLES orders, order_items, menu_items, nextOrderId, now,
          createReq, getReq, statusReq, res, calls

vars == <<orders, order_items, menu_items, nextOrderId, now,
          createReq, getReq, statusReq, res, calls>>

(* ---------------------------- bounds ---------------------------------- *)

\* orders ever created in the lifecycle specifications / in the listing and
\* statistics specifications; the last value of the clock
MaxOrders == 1
MaxListed == 2
MaxClock == 1

(* ---------------------------- values ---------------------------------- *)

\* a key the request body does not carry / a JSON or SQL null; ids and text
\* are strings, and a number that may be missing is written <<v>> or <<>>
ABSENT == "absent"
NULL == "null"
NONE == "none"

StatusEnum == {"pending", "preparing", "delivered", "cancelled"}
PaymentStatusEnum == {"pending", "paid", "refunded"}

\* !v of JavaScript on a string or nothing: undefined, null and the empty
\* string are falsy
Falsy(v) == v \in {ABSENT, NULL, ""}

\* rows of the restaurants table (its routes are not part of the order core)
restaurants == {"r1", "r2"}

\* ids a request may name: the ids the store generates (1..max), and with
\* them one it never generates
StoreIds(max) == 1..max
RequestIds(max) == 1..(max + 1)

(* ------------------------- storage gateway ---------------------------- *)

\* numeric(10,2): a decimal written in mills is rounded to cents, half away
\* from zero
Numeric10_2(m) ==
    IF m >= 0 THEN (m + 5) \div 10 ELSE 0 - ((5 - m) \div 10)

\* DEFAULT of a column: used when the body does not carry the key
ColumnDefault(v, d) == IF v = ABSENT THEN d ELSE v

\* the value a numeric column takes from a body field
NumericField(v) == IF v = <<>> THEN <<>> ELSE <<Numeric10_2(v[1])>>

\* (mutant) the orders table without the CHECK on status
StatusCheckDropped(s) == TRUE

\* CHECK (status IN (...)): a NULL status passes the check
StatusCheck(s) == s = NULL \/ s \in StatusEnum

PaymentStatusCheck(s) == s = NULL \/ s \in PaymentStatusEnum

\* (mutant) the insert overwrites the status of the body with 'pending'
OrdersNewRowForcedPending(body, t) ==
    [restaurant_id  |-> ColumnDefault(body.restaurant_id, NULL),
     customer_name  |-> ColumnDefault(body.customer_name, NULL),
     status         |-> "pending",
     total_amount   |-> NumericField(body.total_amount),
     payment_status |-> ColumnDefault(body.payment_status, "pending"),
     created_at     |-> t,
     updated_at     |-> t]

\* the orders row an INSERT of body builds at time t (before constraints)
OrdersNewRow(body, t) ==
    [restaurant_id  |-> ColumnDefault(body.restaurant_id, NULL),
     customer_name  |-> ColumnDefault(body.customer_name, NULL),
     status         |-> ColumnDefault(body.status, "pending"),
     total_amount   |-> NumericField(body.total_amount),
     payment_status |-> ColumnDefault(body.payment_status, "pending"),
     created_at     |-> t,
     updated_at     |-> t]

\* the constraints of the orders table: the SQLSTATE of the first one the
\* row violates, or "ok"
OrdersConstraint(row) ==
    IF \/ row.restaurant_id = NULL
       \/ row.customer_name = NULL
       \/ row.total_amount = <<>>
    THEN "23502"
    ELSE IF \/ ~ StatusCheck(row.status)
            \/ row.total_amount[1] < 0
            \/ ~ PaymentStatusCheck(row.payment_status)
    THEN "23514"
    ELSE IF row.restaurant_id \notin restaurants
    THEN "23503"
    ELSE "ok"

\* the order_items row built from one element of items; subtotal is the
\* generated column quantity * price
OrderItemRow(orderId, idx, item) ==
    [id           |-> <<orderId, idx>>,
     order_id     |-> orderId,
     menu_item_id |-> item.menu_item_id,
     quantity     |-> item.quantity,
     price        |-> Numeric10_2(item.price),
     subtotal     |-> item.quantity * Numeric10_2(item.price)]

\* the constraints of the order_items table on one row
OrderItemConstraint(row) ==
    IF row.quantity <= 0 \/ row.price < 0
    THEN "23514"
    ELSE IF row.order_id \notin DOMAIN orders
            \/ row.menu_item_id \notin DOMAIN menu_items
    THEN "23503"
    ELSE "ok"

\* one INSERT of several rows: the CHECKs are tested row by row as the rows
\* are built, the foreign keys when the statement ends
BatchConstraint(rows) ==
    IF \E r \in rows : OrderItemConstraint(r) = "23514" THEN "23514"
    ELSE IF \E r \in rows : OrderItemConstraint(r) = "23503" THEN "23503"
    ELSE "ok"

\* rows of order_items that belong to order id
ItemsOf(id) == {r \in order_items : r.order_id = id}

(* --------------------------- responses -------------------------------- *)

\* res.status(c).json(...) of a handler; code "next" is next(error). The
\* data of a listing is written with the query it answers.
Reply(op, id, code, err, data) ==
    [op |-> op, id |-> id, code |-> code, err |-> err, data |-> data]

\* the failure kind the error middleware reports for a storage error
errorHandler(err) ==
    CASE err = "PGRST116" -> "NotFound"
      [] err = "23503"    -> "ReferenceError"
      [] err \in {"23502", "23514"} -> "ValidationError"
      [] OTHER -> "Unavailable"

(* ----------------------------- state ---------------------------------- *)

\* clients that call PATCH /orders/:id/status at the same time; each has at
\* most one call in flight
Callers == {"a", "b"}

\* what is kept of a caller's PATCH call: the request, how far it is
\* ("idle", "sent" to the store, "done"), the code of its response, and as
\* history: whether the other caller's call on the same order was in flight
\* with it, whether its update is the last one applied to the order, and
\* whether it ever applied its update after such a call of the other caller
NoStatusCall ==
    [id |-> 0, status |-> NONE, phase |-> "idle", code |-> "none",
     overlap |-> FALSE, last |-> FALSE, won |-> FALSE]

Init ==
    /\ orders = <<>>
    /\ order_items = {}
    /\ menu_items = ("m1" :> [price |-> 100])
    /\ nextOrderId = 1
    /\ now = 0
    /\ createReq = <<>>
    /\ getReq = <<>>
    /\ statusReq = [c \in Callers |-> NoStatusCall]
    /\ res = Reply("none", 0, "none", NONE, <<>>)
    /\ calls = <<>>

\* time passes between two requests
Tick ==
    /\ now < MaxClock
    /\ now' = now + 1
    /\ UNCHANGED <<orders, order_items, menu_items, nextOrderId,
                   createReq, getReq, res, calls, statusReq>>

(* ------------------------ POST /orders -------------------------------- *)

\* first await: insert the header; respond at once when the insert fails
\* or the body has no items
CreateOrderHeader(body, items) ==
    /\ createReq = <<>>
    /\ LET row == OrdersNewRow(body, now)
           err == OrdersConstraint(row)
           id  == nextOrderId
       IN IF err # "ok"
          THEN /\ res' = Reply("createOrder", 0, "next", err, <<>>)
               /\ UNCHANGED <<orders, nextOrderId, createReq, calls>>
          ELSE /\ orders' = (id :> row) @@ orders
               /\ nextOrderId' = id + 1
               /\ calls' = (id :> [body |-> body, items |-> items,
                                   outcome |-> IF items = <<>>
                                               THEN "201" ELSE "pending",
                                   touched |-> FALSE,
                                   deleted |-> FALSE]) @@ calls
               /\ IF items = <<>>
                  THEN /\ res' = Reply("createOrder", id, "201", NONE, row)
                       /\ UNCHANGED createReq
                  ELSE /\ createReq' = <<[id |-> id, order |-> row,
                                         items |-> items]>>
                       /\ UNCHANGED res
    /\ UNCHANGED <<order_items, menu_items, now, getReq, statusReq>>

\* (mutant) the items are inserted one by one: the rows the table accepts
\* stay although another row fails
CreateOrderItemsRowByRow ==
    /\ createReq # <<>>
    /\ LET id   == createReq[1].id
           rows == {OrderItemRow(id, i, createReq[1].items[i]) :
                       i \in 1..Len(createReq[1].items)}
           err  == BatchConstraint(rows)
       IN /\ order_items' = order_items \cup
                               {r \in rows : OrderItemConstraint(r) = "ok"}
          /\ IF err # "ok"
             THEN /\ res' = Reply("createOrder", id, "next", err, <<>>)
                  /\ calls' = [calls EXCEPT ![id].outcome = err]
             ELSE /\ res' = Reply("createOrder", id, "201", NONE,
                                  createReq[1].order)
                  /\ calls' = [calls EXCEPT ![id].outcome = "201"]
    /\ createReq' = <<>>
    /\ UNCHANGED <<orders, menu_items, nextOrderId, now, getReq, statusReq>>

\* second await: insert all items as one batch (one INSERT statement)
CreateOrderItems ==
    /\ createReq # <<>>
    /\ LET id   == createReq[1].id
           rows == {OrderItemRow(id, i, createReq[1].items[i]) :
                       i \in 1..Len(createReq[1].items)}
           err  == BatchConstraint(rows)
       IN IF err # "ok"
          THEN /\ res' = Reply("createOrder", id, "next", err, <<>>)
               /\ calls' = [calls EXCEPT ![id].outcome = err]
               /\ UNCHANGED order_items
          ELSE /\ order_items' = order_items \cup rows
               /\ res' = Reply("createOrder", id, "201", NONE,
                               createReq[1].order)
               /\ calls' = [calls EXCEPT ![id].outcome = "201"]
    /\ createReq' = <<>>
    /\ UNCHANGED <<orders, menu_items, nextOrderId, now, getReq, statusReq>>

(* ------------------------ GET /orders/:id ----------------------------- *)

\* first await: read the header; 404 when there is none. Kept as history
\* with the header: whether the order is as its createOrder left it
\* (fresh), and whether items of it were stored at this moment (had).
GetOrderHeader(id) ==
    /\ getReq = <<>>
    /\ IF id \notin DOMAIN orders
       THEN /\ res' = Reply("getOrder", id, "404", "Order not found", <<>>)
            /\ UNCHANGED getReq
       ELSE /\ getReq' = <<[id |-> id, order |-> orders[id],
                           fresh |-> calls[id].outcome = "201"
                                     /\ ~ calls[id].touched,
                           had   |-> ItemsOf(id) # {}]>>
            /\ UNCHANGED res
    /\ UNCHANGED <<orders, order_items, menu_items, nextOrderId, now,
                   createReq, calls, statusReq>>

\* (mutant) the second read looks for the header again and answers 404
\* when it is gone
GetOrderItemsRechecked ==
    /\ getReq # <<>>
    /\ IF getReq[1].id \notin DOMAIN orders
       THEN res' = Reply("getOrder", getReq[1].id, "404", "Order not found",
                         <<>>)
       ELSE res' = Reply("getOrder", getReq[1].id, "200", NONE,
                         [order |-> getReq[1].order,
                          items |-> ItemsOf(getReq[1].id),
                          fresh |-> getReq[1].fresh
                                    /\ ~ calls[getReq[1].id].touched,
                          had   |-> getReq[1].had])
    /\ getReq' = <<>>
    /\ UNCHANGED <<orders, order_items, menu_items, nextOrderId, now,
                   createReq, calls, statusReq>>

\* second await: read the items and answer with header and items
GetOrderItems ==
    /\ getReq # <<>>
    /\ res' = Reply("getOrder", getReq[1].id, "200", NONE,
                    [order |-> getReq[1].order,
                     items |-> ItemsOf(getReq[1].id),
                     fresh |-> getReq[1].fresh
                               /\ ~ calls[getReq[1].id].touched,
                     had   |-> getReq[1].had])
    /\ getReq' = <<>>
    /\ UNCHANGED <<orders, order_items, menu_items, nextOrderId, now,
                   createReq, calls, statusReq>>

(* ----------------------- DELETE /orders/:id --------------------------- *)

\* history: another request has acted on order id since its creation
Touch(id) ==
    IF id \in DOMAIN calls THEN [calls EXCEPT ![id].touched = TRUE] ELSE calls

\* history: a deleteOrder of id has completed
Deleted(id) ==
    IF id \in DOMAIN calls
    THEN [calls EXCEPT ![id].touched = TRUE, ![id].deleted = TRUE]
    ELSE calls

\* (mutant) the delete leaves the items of the order behind
DeleteOrderNoCascade(id) ==
    /\ orders' = [o \in DOMAIN orders \ {id} |-> orders[o]]
    /\ res' = Reply("deleteOrder", id, "200", NONE, <<>>)
    /\ calls' = Deleted(id)
    /\ UNCHANGED <<order_items, menu_items, nextOrderId, now, createReq,
                   getReq, statusReq>>

\* (mutant) the delete asks for the deleted row with single(): no row with
\* that id is an error
DeleteOrderSingle(id) ==
    /\ IF id \notin DOMAIN orders
       THEN /\ res' = Reply("deleteOrder", id, "next", "PGRST116", <<>>)
            /\ UNCHANGED <<orders, order_items, calls>>
       ELSE /\ orders' = [o \in DOMAIN orders \ {id} |-> orders[o]]
            /\ order_items' = {r \in order_items : r.order_id # id}
            /\ res' = Reply("deleteOrder", id, "200", NONE, <<>>)
            /\ calls' = Deleted(id)
    /\ UNCHANGED <<menu_items, nextOrderId, now, createReq, getReq,
                   statusReq>>

\* delete the header; ON DELETE CASCADE removes its items
DeleteOrder(id) ==
    /\ orders' = [o \in DOMAIN orders \ {id} |-> orders[o]]
    /\ order_items' = {r \in order_items : r.order_id # id}
    /\ res' = Reply("deleteOrder", id, "200", NONE, <<>>)
    /\ calls' = Deleted(id)
    /\ UNCHANGED <<menu_items, nextOrderId, now, createReq, getReq,
                   statusReq>>

(* ------------------------ PUT /orders/:id ----------------------------- *)

\* the row an UPDATE with patch makes of row at time t; the trigger
\* update_orders_updated_at sets updated_at
OrdersUpdatedRow(row, patch, t) ==
    [restaurant_id  |-> IF patch.restaurant_id = ABSENT
                        THEN row.restaurant_id ELSE patch.restaurant_id,
     customer_name  |-> row.customer_name,
     status         |-> IF patch.status = ABSENT
                        THEN row.status ELSE patch.status,
     total_amount   |-> IF patch.total_amount = <<>>
                        THEN row.total_amount
                        ELSE NumericField(patch.total_amount),
     payment_status |-> IF patch.payment_status = ABSENT
                        THEN row.payment_status ELSE patch.payment_status,
     created_at     |-> row.created_at,
     updated_at     |-> t]

\* (mutant) maybeSingle() in place of single(): no row is no error
OrdersUpdateMaybeSingle(op, id, patch) ==
    IF id \notin DOMAIN orders
    THEN /\ res' = Reply(op, id, "200", NONE, <<>>)
         /\ UNCHANGED <<orders, calls>>
    ELSE LET row == OrdersUpdatedRow(orders[id], patch, now)
             err == OrdersConstraint(row)
         IN IF err # "ok"
            THEN /\ res' = Reply(op, id, "next", err, <<>>)
                 /\ UNCHANGED <<orders, calls>>
            ELSE /\ orders' = [orders EXCEPT ![id] = row]
                 /\ res' = Reply(op, id, "200", NONE, row)
                 /\ calls' = Touch(id)

\* update(...).eq('id', id).select().single(): the outcome and the store
\* after it; no row with that id gives PGRST116
OrdersUpdate(op, id, patch) ==
    IF id \notin DOMAIN orders
    THEN /\ res' = Reply(op, id, "next", "PGRST116", <<>>)
         /\ UNCHANGED <<orders, calls>>
    ELSE LET row == OrdersUpdatedRow(orders[id], patch, now)
             err == OrdersConstraint(row)
         IN IF err # "ok"
            THEN /\ res' = Reply(op, id, "next", err, <<>>)
                 /\ UNCHANGED <<orders, calls>>
            ELSE /\ orders' = [orders EXCEPT ![id] = row]
                 /\ res' = Reply(op, id, "200", NONE, row)
                 /\ calls' = Touch(id)

UpdateOrder(id, patch) ==
    /\ OrdersUpdate("updateOrder", id, patch)
    /\ UNCHANGED <<order_items, menu_items, nextOrderId, now, createReq,
                   getReq, statusReq>>

(* -------------------- PATCH /orders/:id/status ------------------------ *)

StatusPatch(status) ==
    [restaurant_id |-> ABSENT, status |-> status, total_amount |-> <<>>,
     payment_status |-> ABSENT]

\* the handler with no other call in flight: the check of the body and the
\* update, in one step
SetStatus(id, status) ==
    /\ IF Falsy(status)
       THEN /\ res' = Reply("setStatus", id, "400", "Status is required", <<>>)
            /\ UNCHANGED <<orders, calls>>
       ELSE OrdersUpdate("setStatus", id, StatusPatch(status))
    /\ UNCHANGED <<order_items, menu_items, nextOrderId, now, createReq,
                   getReq, statusReq>>

\* The same handler called by several clients at once: its update is in
\* flight from the moment it is sent until the store applies it.

\* another caller's update of order id is in flight
InFlightWith(c, id) ==
    \E d \in Callers \ {c} :
        statusReq[d].phase = "sent" /\ statusReq[d].id = id

\* another caller's update of order id has succeeded with a different status
AppliedBefore(c, id, status) ==
    \E d \in Callers \ {c} :
        /\ statusReq[d].phase = "done"
        /\ statusReq[d].code = "200"
        /\ statusReq[d].id = id
        /\ statusReq[d].status # status

\* the handler up to its await: the early return, or the update sent
SetStatusSend(c, id, status) ==
    /\ statusReq[c].phase # "sent"
    /\ IF Falsy(status)
       THEN /\ res' = Reply("setStatus", id, "400", "Status is required", <<>>)
            /\ statusReq' =
                  [statusReq EXCEPT
                     ![c] = [NoStatusCall EXCEPT
                               !.id = id, !.phase = "done", !.code = "400",
                               !.won = statusReq[c].won]]
       ELSE /\ statusReq' =
                  [d \in Callers |->
                     IF d = c
                     THEN [NoStatusCall EXCEPT
                             !.id = id, !.status = status, !.phase = "sent",
                             !.overlap = InFlightWith(c, id),
                             !.won = statusReq[c].won]
                     ELSE IF statusReq[d].phase = "sent"
                             /\ statusReq[d].id = id
                     THEN [statusReq[d] EXCEPT !.overlap = TRUE]
                     ELSE statusReq[d]]
            /\ UNCHANGED res
    /\ UNCHANGED <<orders, order_items, menu_items, nextOrderId, now,
                   createReq, getReq, calls>>

\* (mutant) an optimistic version check: the update is refused when another
\* caller's update was applied while this one was in flight
SetStatusStoreVersioned(c) ==
    /\ statusReq[c].phase = "sent"
    /\ LET id     == statusReq[c].id
           status == statusReq[c].status
       IN /\ IF statusReq[c].overlap /\ AppliedBefore(c, id, status)
             THEN /\ res' = Reply("setStatus", id, "next", "40001", <<>>)
                  /\ UNCHANGED <<orders, calls>>
             ELSE OrdersUpdate("setStatus", id, StatusPatch(status))
          /\ statusReq' =
                [d \in Callers |->
                   IF d = c
                   THEN [statusReq[c] EXCEPT
                           !.phase = "done",
                           !.code = res'.code,
                           !.last = res'.code = "200",
                           !.won = @ \/ /\ res'.code = "200"
                                        /\ statusReq[c].overlap
                                        /\ AppliedBefore(c, id, status)]
                   ELSE IF statusReq[d].id = id /\ res'.code = "200"
                   THEN [statusReq[d] EXCEPT !.last = FALSE]
                   ELSE statusReq[d]]
    /\ UNCHANGED <<order_items, menu_items, nextOrderId, now, createReq,
                   getReq>>

\* the await: the store applies the update of caller c, an ordinary UPDATE
\* of the row, and the handler answers
SetStatusStore(c) ==
    /\ statusReq[c].phase = "sent"
    /\ LET id     == statusReq[c].id
           status == statusReq[c].status
       IN /\ OrdersUpdate("setStatus", id, StatusPatch(status))
          /\ statusReq' =
                [d \in Callers |->
                   IF d = c
                   THEN [statusReq[c] EXCEPT
                           !.phase = "done",
                           !.code = res'.code,
                           !.last = res'.code = "200",
                           !.won = @ \/ /\ res'.code = "200"
                                        /\ statusReq[c].overlap
                                        /\ AppliedBefore(c, id, status)]
                   ELSE IF statusReq[d].id = id /\ res'.code = "200"
                   THEN [statusReq[d] EXCEPT !.last = FALSE]
                   ELSE statusReq[d]]
    /\ UNCHANGED <<order_items, menu_items, nextOrderId, now, createReq,
                   getReq>>

(* --------------------------- GET /orders ------------------------------ *)

\* the orderings of a finite set
Orderings(S) ==
    {f \in [1..Cardinality(S) -> S] :
        \A i, j \in 1..Cardinality(S) : i # j => f[i] # f[j]}

\* a row as a response shows it: the columns and the id
Shown(id) == [id |-> id, row |-> orders[id]]

\* (mutant) the restaurant_id of the query is not applied
SelectedByStatusOnly(id, filter) ==
    Falsy(filter.status) \/ orders[id].status = filter.status

\* if (status) / if (restaurant_id): an empty query value is falsy too
Selected(id, filter) ==
    /\ Falsy(filter.status) \/ orders[id].status = filter.status
    /\ Falsy(filter.restaurant_id)
          \/ orders[id].restaurant_id = filter.restaurant_id

\* order('created_at', { ascending: false }): rows of one created_at come
\* in any order
ListOrders(filter) ==
    /\ \E f \in Orderings({id \in DOMAIN orders : Selected(id, filter)}) :
          /\ \A i, j \in DOMAIN f :
                i < j => orders[f[i]].created_at >= orders[f[j]].created_at
          /\ res' = Reply("listOrders", 0, "200", NONE,
                          [query |-> filter,
                           rows  |-> [i \in DOMAIN f |-> Shown(f[i])]])
    /\ UNCHANGED <<orders, order_items, menu_items, nextOrderId, now,
                   createReq, getReq, calls, statusReq>>

(* ---------------------- numbers of JavaScript ------------------------- *)

\* A finite number >= 0 of JavaScript (IEEE 754 binary64) is [m, e]: m the
\* 53 bits of the significand, most significant first and starting with 1,
\* and the value is m * 2^e; zero has no bits.
Precision == 53

Zero == [m |-> <<>>, e |-> 0]

Zeros(n) == [i \in 1..n |-> 0]

RECURSIVE BitsOfNat(_)
\* the binary numeral of n, most significant bit first
BitsOfNat(n) == IF n = 0 THEN <<>> ELSE Append(BitsOfNat(n \div 2), n % 2)

\* a numeral without its leading zeros
StripZeros(bits) ==
    IF \A i \in 1..Len(bits) : bits[i] = 0 THEN <<>>
    ELSE SubSeq(bits,
                CHOOSE i \in 1..Len(bits) :
                    bits[i] = 1 /\ \A j \in 1..(i - 1) : bits[j] = 0,
                Len(bits))

\* sum of two numerals: bit i from the right is a_i + b_i + carry, and a
\* carry enters place i when a lower place generates one (1 + 1) and every
\* place in between passes it on (0 + 1)
AddBits(a, b) ==
    LET n    == IF Len(a) >= Len(b) THEN Len(a) ELSE Len(b)
        A(i) == IF i <= Len(a) THEN a[Len(a) + 1 - i] ELSE 0
        B(i) == IF i <= Len(b) THEN b[Len(b) + 1 - i] ELSE 0
        C(i) == IF \E j \in 1..(i - 1) :
                      /\ A(j) + B(j) = 2
                      /\ \A k \in (j + 1)..(i - 1) : A(k) + B(k) = 1
                THEN 1 ELSE 0
    IN [p \in 1..(n + 1) |->
           LET i == n + 2 - p IN (A(i) + B(i) + C(i)) % 2]

\* round the numeral bits * 2^e (plus a rest below its last bit when
\* sticky) to 53 bits: to nearest, ties to even
RoundToDouble(bits0, e, sticky) ==
    LET bits == StripZeros(bits0)
        n    == Len(bits)
    IN IF n = 0 THEN Zero
       ELSE IF n <= Precision
       THEN [m |-> bits \o Zeros(Precision - n), e |-> e - (Precision - n)]
       ELSE LET kept  == SubSeq(bits, 1, Precision)
                guard == bits[Precision + 1]
                rest  == sticky \/ \E i \in (Precision + 2)..n : bits[i] = 1
                up    == guard = 1 /\ (rest \/ kept[Precision] = 1)
                r     == IF up THEN StripZeros(AddBits(kept, <<1>>))
                         ELSE kept
            IN [m |-> SubSeq(r, 1, Precision),
                e |-> e + (n - Precision) + (Len(r) - Precision)]

\* 2^k modulo 100, by 2^10 = 1024
Pow2Mod100(k) == (((24 ^ (k \div 10)) % 100) * (2 ^ (k % 10))) % 100

\* what is left of r (< 100) after k binary places of r / 100
FractionRem(r, k) == (r * Pow2Mod100(k)) % 100

\* the first k binary places of r / 100
FractionBits(r, k) ==
    [i \in 1..k |-> IF 2 * FractionRem(r, i - 1) >= 100 THEN 1 ELSE 0]

\* binary places computed of a decimal fraction: 53 and a guard bit after
\* the at most 6 leading zeros of a fraction >= 0.01
Places == 61

\* the JavaScript number of the JSON number with c hundredths: the binary64
\* nearest to c / 100
DoubleOfCents(c) ==
    RoundToDouble(BitsOfNat(c \div 100) \o FractionBits(c % 100, Places),
                  0 - Places, FractionRem(c % 100, Places) # 0)

\* x + y of JavaScript
DoubleAdd(x, y) ==
    IF x.m = <<>> THEN y
    ELSE IF y.m = <<>> THEN x
    ELSE LET e == IF x.e <= y.e THEN x.e ELSE y.e
         IN RoundToDouble(AddBits(x.m \o Zeros(x.e - e), y.m \o Zeros(y.e - e)),
                          e, FALSE)

(* -------------------- GET /orders/stats/summary ----------------------- *)

RECURSIVE ReduceSum(_, _)
\* rows.reduce((sum, o) => sum + parseFloat(o.total_amount), 0) over the
\* rows in the order the store returned them
ReduceSum(rows, sum) ==
    IF rows = <<>> THEN sum
    ELSE ReduceSum(Tail(rows),
                   DoubleAdd(sum, DoubleOfCents(Head(rows).total_amount[1])))

\* orders.filter(o => o.status === s).length
CountStatus(s) == Cardinality({id \in DOMAIN orders : orders[id].status = s})

\* the stats object over the rows of the select, which come in any order
Summarize ==
    /\ \E f \in Orderings({id \in DOMAIN orders :
                               orders[id].status = "delivered"}) :
          res' = Reply("summarize", 0, "200", NONE,
                       [total_orders  |-> Cardinality(DOMAIN orders),
                        pending       |-> CountStatus("pending"),
                        preparing     |-> CountStatus("preparing"),
                        delivered     |-> CountStatus("delivered"),
                        cancelled     |-> CountStatus("cancelled"),
                        total_revenue |->
                            ReduceSum([i \in DOMAIN f |-> orders[f[i]]],
                                      Zero)])
    /\ UNCHANGED <<orders, order_items, menu_items, nextOrderId, now,
                   createReq, getReq, calls, statusReq>>

(* ------------------------- menu routes -------------------------------- *)

\* (mutant) a new menu price is written through to the order items
MenuUpdateRepricing(id, price) ==
    /\ id \in DOMAIN menu_items
    /\ menu_items' = [menu_items EXCEPT ![id].price = Numeric10_2(price)]
    /\ order_items' =
          {IF r.menu_item_id = id
           THEN [r EXCEPT !.price = Numeric10_2(price),
                          !.subtotal = r.quantity * Numeric10_2(price)]
           ELSE r : r \in order_items}
    /\ res' = Reply("menuUpdate", 0, "200", NONE, <<>>)
    /\ UNCHANGED <<orders, nextOrderId, now, createReq, getReq, calls,
                   statusReq>>

\* PUT /menu/:id with a body carrying price
MenuUpdate(id, price) ==
    /\ IF id \notin DOMAIN menu_items
       THEN /\ res' = Reply("menuUpdate", 0, "next", "PGRST116", <<>>)
            /\ UNCHANGED menu_items
       ELSE IF Numeric10_2(price) < 0
       THEN /\ res' = Reply("menuUpdate", 0, "next", "23514", <<>>)
            /\ UNCHANGED menu_items
       ELSE /\ menu_items' = [menu_items EXCEPT
                                 ![id].price = Numeric10_2(price)]
            /\ res' = Reply("menuUpdate", 0, "200", NONE, <<>>)
    /\ UNCHANGED <<orders, order_items, nextOrderId, now, createReq,
                   getReq, calls, statusReq>>

\* DELETE /menu/:id: ON DELETE RESTRICT while an order item references it
MenuDelete(id) ==
    /\ IF \E r \in order_items : r.menu_item_id = id
       THEN /\ res' = Reply("menuDelete", 0, "next", "23503", <<>>)
            /\ UNCHANGED menu_items
       ELSE /\ menu_items' = [m \in DOMAIN menu_items \ {id} |->
                                 menu_items[m]]
            /\ res' = Reply("menuDelete", 0, "200", NONE, <<>>)
    /\ UNCHANGED <<orders, order_items, nextOrderId, now, createReq,
                   getReq, calls, statusReq>>

(* ------------------- inputs of the order lifecycle -------------------- *)

Body(r, c, s, a, p) ==
    [restaurant_id |-> r, customer_name |-> c, status |-> s,
     total_amount |-> a, payment_status |-> p]

Item(m, q, p) == [menu_item_id |-> m, quantity |-> q, price |-> p]

\* request bodies of POST /orders: one that leaves the defaults to the
\* table, one with every field supplied, and one naming no restaurant
Bodies ==
    {Body("r1", "Ann", ABSENT, <<1000>>, ABSENT),
     Body("r2", "Bob", "preparing", <<2500>>, "paid"),
     Body("r9", "Ann", ABSENT, <<1000>>, ABSENT)}

\* items arrays of POST /orders; menu item m2 does not exist, a quantity of
\* 0 fails the CHECK, and 1.005 has more digits than numeric(10,2) keeps
ItemLists ==
    {<<>>,
     <<Item("m1", 2, 1000)>>,
     <<Item("m1", 1, 1000), Item("m1", 1, 1000)>>,
     <<Item("m1", 1, 1500), Item("m2", 1, 1000)>>,
     <<Item("m1", 0, 1000)>>,
     <<Item("m1", 3, 1005)>>}

\* bodies of PUT /orders/:id: new status and amount, a null status, a
\* negative amount
Patches ==
    {[restaurant_id |-> ABSENT, status |-> "delivered",
      total_amount |-> <<3000>>, payment_status |-> ABSENT],
     [restaurant_id |-> ABSENT, status |-> NULL,
      total_amount |-> <<>>, payment_status |-> ABSENT],
     [restaurant_id |-> ABSENT, status |-> ABSENT,
      total_amount |-> <<0 - 1000>>, payment_status |-> ABSENT]}

\* status values of PATCH /orders/:id/status: none, null, empty, one
\* outside the enum, one inside
StatusInputs == {ABSENT, NULL, "", "shipped", "cancelled"}

\* price values of PUT /menu/:id
MenuPrices == {1500}

MenuIds == {"m1"}

\* POST /orders over the given inputs, with at most max orders ever created
Creates(max, bodies, lists) ==
    \/ /\ nextOrderId <= max
       /\ \E body \in bodies, items \in lists :
             CreateOrderHeader(body, items)
    \/ CreateOrderItems

\* the other requests of the orders router, on the given ids
Reads(ids) ==
    \/ \E id \in ids : GetOrderHeader(id)
    \/ GetOrderItems

Deletes(ids) == \E id \in ids : DeleteOrder(id)

Updates(ids, patches, statuses) ==
    \/ \E id \in ids, patch \in patches : UpdateOrder(id, patch)
    \/ \E id \in ids, status \in statuses : SetStatus(id, status)

Menu ==
    \/ \E id \in MenuIds, price \in MenuPrices : MenuUpdate(id, price)
    \/ \E id \in MenuIds : MenuDelete(id)

\* orders with their items: creation, detail fetch, deletion, plain updates
\* and the menu
Next ==
    \/ Creates(MaxOrders, Bodies, ItemLists)
    \/ Reads(StoreIds(MaxOrders))
    \/ Deletes(StoreIds(MaxOrders))
    \/ Updates(StoreIds(MaxOrders), {p \in Patches : p.status = "delivered"},
               {"cancelled"})
    \/ Menu

Spec == Init /\ [][Next]_vars

\* order headers under every kind of update, as time passes
NextStatus ==
    \/ Tick
    \/ Creates(MaxOrders, Bodies, {<<>>, <<Item("m1", 2, 1000)>>})
    \/ Deletes(RequestIds(MaxOrders))
    \/ Updates(RequestIds(MaxOrders), Patches, StatusInputs)

SpecStatus == Init /\ [][NextStatus]_vars

\* bodies of POST /orders for the statistics: amounts 0.10 and 0.20, every
\* way a status arrives, a payment_status
StatsBodies ==
    {Body("r1", "Ann", ABSENT, <<100>>, ABSENT),
     Body("r1", "Ann", "delivered", <<100>>, ABSENT),
     Body("r1", "Ann", "delivered", <<200>>, "refunded"),
     Body("r1", "Ann", "preparing", <<200>>, ABSENT),
     Body("r1", "Ann", NULL, <<200>>, ABSENT)}

\* order headers and the summary of them
NextStats ==
    \/ /\ nextOrderId <= MaxListed
       /\ \E body \in StatsBodies : CreateOrderHeader(body, <<>>)
    \/ Deletes(StoreIds(MaxListed))
    \/ Updates(StoreIds(MaxListed), {p \in Patches : p.status = "delivered"},
               {"delivered", "cancelled"})
    \/ Summarize

SpecStats == Init /\ [][NextStats]_vars

\* bodies of POST /orders for the listing: two restaurants, two statuses
ListBodies ==
    {Body("r1", "Ann", ABSENT, <<1000>>, ABSENT),
     Body("r2", "Ann", ABSENT, <<1000>>, ABSENT),
     Body("r1", "Ann", "delivered", <<1000>>, ABSENT)}

\* query strings of GET /orders
Filters ==
    [status : {ABSENT, "", "pending", "delivered"},
     restaurant_id : {ABSENT, "r1", "r2"}]

\* order headers and the listing of them, as time passes
NextList ==
    \/ Tick
    \/ /\ nextOrderId <= MaxListed
       /\ \E body \in ListBodies : CreateOrderHeader(body, <<>>)
    \/ Deletes(StoreIds(MaxListed))
    \/ \E id \in StoreIds(MaxListed) : SetStatus(id, "pending")
    \/ \E filter \in Filters : ListOrders(filter)

SpecList == Init /\ [][NextList]_vars

(* ===================== claims: creation and items ==================== *)

\* C1 (as claimed): createOrder is all-or-nothing: in every state, a stored
\* order that was created with a non-empty items list has all of its items
\* stored; the header is never stored without them.
CreateOrderAllOrNothing ==
    \A id \in DOMAIN orders :
        calls[id].items # <<>> =>
            Cardinality(ItemsOf(id)) = Len(calls[id].items)

\* a decimal of a request body that numeric(10,2) can hold as it is
CentPrecise(m) == m % 10 = 0

\* a request the tables accept and hold as it is
ValidInput(c) ==
    /\ OrdersConstraint(OrdersNewRow(c.body, 0)) = "ok"
    /\ CentPrecise(c.body.total_amount[1])
    /\ \A i \in 1..Len(c.items) :
          /\ c.items[i].quantity > 0
          /\ c.items[i].price >= 0
          /\ CentPrecise(c.items[i].price)

\* the header of a response carries the body's value on every supplied field
HeaderMatches(order, body) ==
    /\ order.restaurant_id = body.restaurant_id
    /\ order.customer_name = body.customer_name
    /\ body.status # ABSENT => order.status = body.status
    /\ order.total_amount[1] * 10 = body.total_amount[1]
    /\ body.payment_status # ABSENT =>
          order.payment_status = body.payment_status

\* the (menu_item_id, quantity, price) triples of a request and of a response
TripleOfItem(item) == <<item.menu_item_id, item.quantity, item.price>>
TripleOfRow(r) == <<r.menu_item_id, r.quantity, r.price * 10>>

\* the rows are, as a multiset of triples, the items of the request
SameMultiset(rows, items) ==
    /\ Cardinality(rows) = Len(items)
    /\ \A i \in 1..Len(items) :
          Cardinality({r \in rows : TripleOfRow(r) = TripleOfItem(items[i])})
            = Cardinality({j \in 1..Len(items) :
                             TripleOfItem(items[j]) = TripleOfItem(items[i])})

DanglingMenuItemStoresNoItems ==
    [][(/\ createReq # <<>>
        /\ createReq' = <<>>
        /\ \E i \in 1..Len(createReq[1].items) :
              createReq[1].items[i].menu_item_id \notin DOMAIN menu_items)
       => /\ res'.op = "createOrder"
          /\ res'.code = "next"
          /\ order_items' = order_items
          /\ {r \in order_items' : r.order_id = createReq[1].id} = {}]_vars

\* C3 witness: a createOrder whose list names an existing menu item and a
\* missing one has ended in a foreign-key error, with no item stored.
DanglingMenuItemWitness ==
    /\ res.op = "createOrder"
    /\ res.code = "next"
    /\ res.err = "23503"
    /\ res.id \in DOMAIN orders
    /\ \E i, j \in 1..Len(calls[res.id].items) :
          /\ calls[res.id].items[i].menu_item_id \in DOMAIN menu_items
          /\ calls[res.id].items[j].menu_item_id \notin DOMAIN menu_items
    /\ ItemsOf(res.id) = {}

\* C4: once deleteOrder(id) has completed, the order is not stored, none of
\* its items is stored, and every getOrder(id) answers 404; and in every
\* state every order item references a stored order.
DeleteCascades ==
    /\ [](/\ \A r \in order_items : r.order_id \in DOMAIN orders
          /\ \A id \in DOMAIN calls :
                calls[id].deleted =>
                    id \notin DOMAIN orders /\ ItemsOf(id) = {})
    /\ [][\A id \in DOMAIN calls :
            (calls[id].deleted /\ GetOrderHeader(id)) =>
                (res'.code = "404" /\ getReq' = <<>>)]_vars

\* C4 witness: an order created with items was deleted, and a later
\* getOrder of it answered 404.
DeleteCascadesWitness ==
    /\ res.op = "getOrder"
    /\ res.code = "404"
    /\ res.id \in DOMAIN calls
    /\ calls[res.id].deleted
    /\ calls[res.id].outcome = "201"
    /\ calls[res.id].items # <<>>

\* C10: an order item, for as long as it is stored, keeps its price,
\* quantity and subtotal through every request: menu updates, updateOrder
\* and setStatus change no order item.
ItemPriceIsSnapshot ==
    [][/\ \A r \in order_items :
            (\E q \in order_items' : q.id = r.id) => r \in order_items'
       /\ (res'.op \in {"menuUpdate", "updateOrder", "setStatus"}
             /\ res' # res) => order_items' = order_items]_vars

\* C10 witness: a menu update has changed the price of a menu item that a
\* stored order item references at its old price.
ItemPriceIsSnapshotWitness ==
    /\ res.op = "menuUpdate"
    /\ res.code = "200"
    /\ \E r \in order_items :
          /\ r.menu_item_id \in DOMAIN menu_items
          /\ menu_items[r.menu_item_id].price # r.price
          /\ r.subtotal = r.quantity * r.price

\* status values of the callers of PATCH /orders/:id/status that race:
\* caller a sends none or 'preparing', caller b sends 'delivered'
CallerStatuses == [a |-> {ABSENT, "preparing"}, b |-> {"delivered"}]

\* order headers under PATCH calls of several callers at once
NextRace ==
    \/ /\ nextOrderId <= MaxOrders
       /\ \E body \in Bodies : CreateOrderHeader(body, <<>>)
    \/ Deletes(StoreIds(MaxOrders))
    \/ \E c \in Callers, id \in RequestIds(MaxOrders) :
          \E status \in CallerStatuses[c] : SetStatusSend(c, id, status)
    \/ \E c \in Callers : SetStatusStore(c)

SpecRace == Init /\ [][NextRace]_vars

\* the rows the items insert of the createOrder of order id stores
BatchOf(id) ==
    {OrderItemRow(id, i, calls[id].items[i]) : i \in 1..Len(calls[id].items)}

\* C13: every answer of getOrder is 404, or 200 with the header as read
\* and either all the items the order was given or none; when a
\* deleteOrder of the id completes between the header read and the items
\* read, the answer is 200 with the header and no items, whether or not
\* items were stored at the header read.
GetOrderReadsAreSeparate ==
    /\ [](res.op = "getOrder" =>
            \/ res.code = "404" /\ res.err = "Order not found"
            \/ /\ res.code = "200"
               /\ res.data.items \in {{}, BatchOf(res.id)})
    /\ [][(getReq # <<>> /\ getReq' = <<>>) =>
            /\ res'.op = "getOrder"
            /\ res'.id = getReq[1].id
            /\ res'.code = "200"
            /\ res'.data.order = getReq[1].order
            /\ res'.data.items = ItemsOf(getReq[1].id)
            /\ calls[getReq[1].id].deleted => res'.data.items = {}]_vars

\* C13 witness: a getOrder has answered 200 with a header and no items for
\* an order that had items when its header was read and was deleted before
\* its items were read.
GetOrderReadsAreSeparateWitness ==
    /\ res.op = "getOrder"
    /\ res.code = "200"
    /\ res.data.had
    /\ res.data.items = {}
    /\ calls[res.id].deleted
    /\ calls[res.id].outcome = "201"
    /\ BatchOf(res.id) # {}
    /\ res.id \notin DOMAIN orders

(* ====================== claims: status and update ==================== *)

\* the outcomes of a response, by kind
ValidationOutcome(r) ==
    \/ r.code = "400"
    \/ r.code = "next" /\ errorHandler(r.err) = "ValidationError"

NotFoundOutcome(r) ==
    \/ r.code = "404"
    \/ r.code = "next" /\ errorHandler(r.err) = "NotFound"

StoreUnchanged == orders' = orders /\ order_items' = order_items

\* C5 (as claimed): setStatus(id, s) with s missing, empty or outside the
\* enum always ends in a validation error and changes nothing stored.
InvalidStatusIsValidationError ==
    [][\A id \in RequestIds(MaxOrders), s \in StatusInputs \ StatusEnum :
          SetStatus(id, s) => (ValidationOutcome(res') /\ StoreUnchanged)]_vars

\* C5 (amended): setStatus(id, s) with s missing, empty or outside the enum
\* never succeeds and changes nothing stored; it ends in a validation error
\* when s is missing or empty or an order with that id is stored, and in
\* NotFound when s is non-empty and no order with that id is stored.
InvalidStatusRejected ==
    [][\A id \in RequestIds(MaxOrders), s \in StatusInputs \ StatusEnum :
          SetStatus(id, s) =>
              /\ StoreUnchanged
              /\ IF Falsy(s) \/ id \in DOMAIN orders
                 THEN ValidationOutcome(res')
                 ELSE NotFoundOutcome(res')]_vars

\* C5 witness: the store has refused a status outside the enum on a stored
\* order whose status is no longer the default.
InvalidStatusRejectedWitness ==
    /\ res.op = "setStatus"
    /\ res.code = "next"
    /\ res.err = "23514"
    /\ res.id \in DOMAIN orders
    /\ orders[res.id].status = "cancelled"

\* C9 (as claimed): updateOrder and setStatus on an id with no stored order
\* end in NotFound and change nothing stored.
AbsentIdIsNotFound ==
    [][\A id \in RequestIds(MaxOrders) :
          (/\ id \notin DOMAIN orders
           /\ \/ \E patch \in Patches : UpdateOrder(id, patch)
              \/ \E s \in StatusInputs : SetStatus(id, s))
          => (NotFoundOutcome(res') /\ StoreUnchanged)]_vars

\* C9 (amended): on an id with no stored order, updateOrder, and setStatus
\* with a non-empty status, end in NotFound; setStatus with a missing or
\* empty status ends in the validation error 400; all leave every stored
\* order and order item unchanged.
AbsentIdRejected ==
    [][\A id \in RequestIds(MaxOrders) :
          id \notin DOMAIN orders =>
              /\ \A patch \in Patches :
                    UpdateOrder(id, patch) =>
                        (NotFoundOutcome(res') /\ StoreUnchanged)
              /\ \A s \in StatusInputs :
                    SetStatus(id, s) =>
                        /\ StoreUnchanged
                        /\ IF Falsy(s)
                           THEN res'.code = "400"
                           ELSE NotFoundOutcome(res')]_vars

\* C9 witness: an updateOrder found no row for its id while another order
\* and its items were stored.
AbsentIdRejectedWitness ==
    /\ res.op = "updateOrder"
    /\ res.code = "next"
    /\ res.err = "PGRST116"
    /\ res.id \notin DOMAIN orders
    /\ orders # <<>>
    /\ order_items # {}

\* C11: deleteOrder(id) always reports success and leaves no order id and
\* no item of it stored; on an id with no stored order (never created, or
\* deleted by an earlier deleteOrder) it leaves every order and order item
\* as it was, so a second deleteOrder(id) succeeds like the first and ends
\* in the store the first one left.
DeleteIsIdempotent ==
    [][\A id \in RequestIds(MaxOrders) :
          DeleteOrder(id) =>
              /\ res'.code = "200"
              /\ res'.err = NONE
              /\ id \notin DOMAIN orders'
              /\ \A r \in order_items' : r.order_id # id
              /\ id \notin DOMAIN orders => StoreUnchanged]_vars

\* C11 witness: a deleteOrder of an id that was never created has reported
\* success while an order with its items is stored.
DeleteIsIdempotentWitness ==
    /\ res.op = "deleteOrder"
    /\ res.code = "200"
    /\ res.id \notin DOMAIN calls
    /\ orders # <<>>
    /\ order_items # {}

\* C12: a setStatus call with a status of the enum, applied to a stored
\* order, succeeds whatever other calls did while it was in flight, and the
\* order then holds its status; after two calls on the same order that were
\* in flight together and both succeeded, the stored status is that of the
\* call the store applied last, so one of the two. No status is refused
\* because of the status stored before.
ConcurrentSetStatusLastWins ==
    /\ [](\A c \in Callers :
            (/\ statusReq[c].phase = "done"
             /\ statusReq[c].code = "200"
             /\ statusReq[c].id \in DOMAIN orders)
            => /\ statusReq[c].last =>
                     orders[statusReq[c].id].status = statusReq[c].status
               /\ \A d \in Callers \ {c} :
                     (/\ statusReq[d].phase = "done"
                      /\ statusReq[d].code = "200"
                      /\ statusReq[d].id = statusReq[c].id
                      /\ statusReq[c].overlap
                      /\ statusReq[d].overlap)
                     => /\ orders[statusReq[c].id].status
                             \in {statusReq[c].status, statusReq[d].status}
                        /\ statusReq[c].last # statusReq[d].last)
    /\ [][\A c \in Callers :
            (/\ statusReq[c].phase = "sent"
             /\ statusReq'[c].phase = "done"
             /\ statusReq[c].status \in StatusEnum
             /\ statusReq[c].id \in DOMAIN orders)
            => /\ res'.op = "setStatus"
               /\ res'.code = "200"
               /\ res'.data.status = statusReq[c].status
               /\ orders'[statusReq[c].id].status = statusReq[c].status
               /\ statusReq'[c].code = "200"]_vars

\* C12 witness: two calls with different statuses on one stored order were
\* in flight together and both succeeded, the call with 'preparing' was
\* applied last, after 'delivered'; and each of the two callers has been
\* the last one of such a pair.
ConcurrentSetStatusWitness ==
    /\ \A c \in Callers :
          /\ statusReq[c].phase = "done"
          /\ statusReq[c].code = "200"
          /\ statusReq[c].overlap
          /\ statusReq[c].won
    /\ statusReq["a"].id = statusReq["b"].id
    /\ statusReq["a"].id \in DOMAIN orders
    /\ statusReq["a"].status = "preparing"
    /\ statusReq["b"].status = "delivered"
    /\ statusReq["a"].last
    /\ orders[statusReq["a"].id].status = "preparing"

(* ======================= claims: statistics ========================== *)

RECURSIVE SumCents(_)
\* the exact sum, in cents, of total_amount over the orders of ids
SumCents(ids) ==
    IF ids = {} THEN 0
    ELSE LET id == CHOOSE x \in ids : TRUE
         IN orders[id].total_amount[1] + SumCents(ids \ {id})

WithStatus(s) == {id \in DOMAIN orders : orders[id].status = s}

\* C6 (as claimed): summarize() returns total_orders = the number of stored
\* orders, each status count = the number of orders with that status, and
\* total_revenue = the sum of total_amount over the delivered orders
\* whatever their payment_status; all 0 on an empty store.
SummaryMatchesStore ==
    [][Summarize =>
          /\ res'.data.total_orders = Cardinality(DOMAIN orders)
          /\ res'.data.pending = Cardinality(WithStatus("pending"))
          /\ res'.data.preparing = Cardinality(WithStatus("preparing"))
          /\ res'.data.delivered = Cardinality(WithStatus("delivered"))
          /\ res'.data.cancelled = Cardinality(WithStatus("cancelled"))
          /\ res'.data.total_revenue
                = DoubleOfCents(SumCents(WithStatus("delivered")))]_vars

\* C7 (as claimed): total_revenue is the exact decimal sum of the
\* total_amount of the delivered orders: the number JSON writes as that
\* decimal.
RevenueIsExactDecimalSum ==
    [][Summarize =>
          res'.data.total_revenue
            = DoubleOfCents(SumCents(WithStatus("delivered")))]_vars

\* C14 (as claimed): in every state every stored order's status is one of
\* pending, preparing, delivered, cancelled, and the four status counts of
\* every summary add up to its total_orders.
StatusAlwaysInEnum ==
    /\ \A id \in DOMAIN orders : orders[id].status \in StatusEnum
    /\ res.op = "summarize" =>
          res.data.pending + res.data.preparing + res.data.delivered
              + res.data.cancelled = res.data.total_orders

(* ========================= claims: listing =========================== *)

\* a condition of the query that is supplied
Supplied(v) == v # ABSENT /\ v # ""

\* the stored orders that satisfy every supplied condition of filter
Matching(filter) ==
    {id \in DOMAIN orders :
        /\ Supplied(filter.status) => orders[id].status = filter.status
        /\ Supplied(filter.restaurant_id) =>
              orders[id].restaurant_id = filter.restaurant_id}

\* C8: listOrders(filter) returns exactly the stored orders that satisfy
\* every supplied condition, each once and as stored, by created_at
\* descending; with the status filter 'pending' every returned order is
\* pending.
ListReturnsMatchingNewestFirst ==
    [][(res'.op = "listOrders" /\ res' # res) =>
          LET filter == res'.data.query
              d      == res'.data.rows
          IN /\ filter \in Filters
             /\ Len(d) = Cardinality(Matching(filter))
             /\ {d[i].id : i \in 1..Len(d)} = Matching(filter)
             /\ \A i \in 1..Len(d) : d[i].row = orders[d[i].id]
             /\ \A i, j \in 1..Len(d) :
                   i < j => d[i].row.created_at >= d[j].row.created_at
             /\ filter.status = "pending" =>
                   \A i \in 1..Len(d) : d[i].row.status = "pending"]_vars

\* C8 witness: a listing by restaurant has returned one of two stored
\* orders of different restaurants, created at different times.
ListReturnsMatchingWitness ==
    /\ res.op = "listOrders"
    /\ Supplied(res.data.query.restaurant_id)
    /\ Len(res.data.rows) = 1
    /\ Cardinality(DOMAIN orders) = 2
    /\ res.data.rows[1].id \in DOMAIN orders
    /\ res.data.rows[1].row = orders[res.data.rows[1].id]
    /\ \E id \in DOMAIN orders :
          /\ orders[id].restaurant_id # res.data.rows[1].row.restaurant_id
          /\ orders[id].created_at # res.data.rows[1].row.created_at

====
